---- MODULE Spec2Model ----
(***************************************************************************)
(* Model of f8_catbox_uploader.py: a global hotkey (F8) runs on_hotkey,    *)
(* which lets the user drag a region on a full-screen overlay, grabs and   *)
(* saves it, uploads the file, copies the returned link to the clipboard   *)
(* and removes the file; F4 ends the program.                              *)
(*                                                                         *)
(* Text is a tuple of one-character strings; a path is the clock second    *)
(* its name snip_<YYYYMMDD_HHMMSS>.png is derived from; the content of a   *)
(* file is the id of the session whose capture it holds.                   *)
(***************************************************************************)
EXTENDS Integers, Sequences, FiniteSets, TLC

\* ---- bounds of the model ------------------------------------------------
MaxSessions == 2
MaxCoord == 1
MaxClock == 1
MaxBody == 5

\* ---- values ---------------------------------------------------------------
Sessions == 1..MaxSessions
Coords == 0..MaxCoord
Paths == 0..MaxClock

\* on_hotkey: path = None
NoPath == -1
\* no file at a path of TMP_DIR
NoFile == 0
\* no URL bound to on_hotkey's url yet
NoUrl == << >>
\* the clipboard as some other program left it, and an emptied clipboard
PriorClip == <<"c">>
EmptyClip == << >>

\* str.strip() removes these
Whitespace == {" ", "\n"}
Alphabet == {"h", "t", "p", " ", "\n"}
\* the prefix of resp.text.startswith("http")
Http == <<"h", "t", "t", "p">>
Statuses == {200, 201, 400, 500}

RECURSIVE TextsOfLen(_)
TextsOfLen(n) ==
    IF n = 0 THEN {<< >>}
    ELSE {Append(t, c) : t \in TextsOfLen(n - 1), c \in Alphabet}

Bodies == UNION {TextsOfLen(n) : n \in 0..MaxBody}

\* every response the endpoint can give
Responses == [status : Statuses, body : Bodies]

\* the responses drawn while whole sessions run
SessionResponses ==
    { [status |-> 200, body |-> Http \o <<"\n">>],
      [status |-> 201, body |-> Http \o <<"p", " ">>],
      [status |-> 200, body |-> <<"p">>],
      [status |-> 400, body |-> Http] }

NoResp == [status |-> 0, body |-> << >>]
NoExc == [stage |-> "", status |-> 0, body |-> << >>]
NoBox == << >>
NoRect == << >>

\* ---- pure functions of the source -------------------------------------------
Min(a, b) == IF a <= b THEN a ELSE b
Max(a, b) == IF a >= b THEN a ELSE b

\* a slip that keeps the raw press and release points
NormaliseRect_Raw(sx, sy, ex, ey) == <<sx, sy, ex, ey>>

\* a slip that pads the far corner by one pixel
NormaliseRect_Pad(sx, sy, ex, ey) ==
    <<Min(sx, ex), Min(sy, ey), Max(sx, ex) + 1, Max(sy, ey) + 1>>

\* take_snip: x1, y1, x2, y2
NormaliseRect(sx, sy, ex, ey) ==
    <<Min(sx, ex), Min(sy, ey), Max(sx, ex), Max(sy, ey)>>

\* the image ImageGrab.grab(bbox) returns has no pixels
EmptyImage(box) == box[3] - box[1] <= 0 \/ box[4] - box[2] <= 0

\* str.startswith
StartsWith(text, prefix) ==
    /\ Len(text) >= Len(prefix)
    /\ SubSeq(text, 1, Len(prefix)) = prefix

RECURSIVE LStrip(_)
LStrip(text) ==
    IF text # << >> /\ Head(text) \in Whitespace THEN LStrip(Tail(text)) ELSE text

RECURSIVE RStrip(_)
RStrip(text) ==
    IF text # << >> /\ text[Len(text)] \in Whitespace
    THEN RStrip(SubSeq(text, 1, Len(text) - 1))
    ELSE text

\* str.strip
Strip(text) == RStrip(LStrip(text))

\* requests.Response.ok
RespOk(status) == status < 400

\* a slip that accepts any body starting with the prefix
UploadOk_AnyStatus(r) == StartsWith(r.body, Http)

\* upload_to_catbox: not (not resp.ok or not resp.text.startswith("http"))
UploadOk(r) == RespOk(r.status) /\ StartsWith(r.body, Http)

\* a slip that returns the body as received
ReturnedUrl_Raw(body) == body

\* upload_to_catbox: return resp.text.strip()
ReturnedUrl(body) == Strip(body)

\* on_hotkey: except Exception
Caught(stage) == TRUE

\* a slip that retries a failed upload
RaiseTo_Retry(stage) == IF stage = "upload" THEN "upload" ELSE "finally"

\* a slip that handles only the errors of the local steps
RaiseTo_Narrow(stage) == IF stage = "upload" THEN "finally_raising" ELSE "finally"

\* a slip that swallows the upload error and carries on
RaiseTo_Swallow(stage) == IF stage = "upload" THEN "copy" ELSE "finally"

\* where control goes when a step inside on_hotkey's try raises
RaiseTo(stage) == IF Caught(stage) THEN "finally" ELSE "finally_raising"

\* ---- state -------------------------------------------------------------------
VARIABLES
    mainpc,      \* main: "start", "waiting" (keyboard.wait), "exited"
    started,     \* how many times on_hotkey was invoked
    pc,          \* position of each invocation of on_hotkey
    tool,        \* the SnippingTool of each invocation
    button1,     \* the pointer's button 1 is held down
    bbox,        \* take_snip: (x1, y1, x2, y2) handed to ImageGrab.grab
    path,        \* on_hotkey: path
    url,         \* on_hotkey: url
    resp,        \* upload_to_catbox: resp
    exc,         \* the exception raised inside on_hotkey's try
    now,         \* datetime.now(), in seconds
    fs,          \* TMP_DIR: path -> content
    clipboard,   \* the system clipboard
    posted,      \* the file contents each invocation sent by requests.post
    copies,      \* how many times each invocation called pyperclip.copy
    clip_before, \* the clipboard when each invocation began
    log          \* the records each invocation handed to logger

vars == <<mainpc, started, pc, tool, button1, bbox, path, url, resp, exc, now,
          fs, clipboard, posted, copies, clip_before, log>>

session_vars == <<tool, bbox, path, url, resp, exc, posted, copies, clip_before, log>>

\* SnippingTool.__init__ before the window exists
NoTool == [start_x |-> 0, start_y |-> 0, end_x |-> 0, end_y |-> 0,
           rect |-> NoRect, root |-> "none"]

Init ==
    /\ mainpc = "start"
    /\ started = 0
    /\ pc = [s \in Sessions |-> "idle"]
    /\ tool = [s \in Sessions |-> NoTool]
    /\ button1 = FALSE
    /\ bbox = [s \in Sessions |-> NoBox]
    /\ path = [s \in Sessions |-> NoPath]
    /\ url = [s \in Sessions |-> NoUrl]
    /\ resp = [s \in Sessions |-> NoResp]
    /\ exc = [s \in Sessions |-> NoExc]
    /\ now = 0
    /\ fs = [p \in Paths |-> NoFile]
    /\ clipboard = PriorClip
    /\ posted = [s \in Sessions |-> << >>]
    /\ copies = [s \in Sessions |-> 0]
    /\ clip_before = [s \in Sessions |-> EmptyClip]
    /\ log = [s \in Sessions |-> << >>]

Logged(s, msg) == [log EXCEPT ![s] = Append(@, msg)]

\* a step of invocation s raises at the given stage
Raise(s, stage, status, body) ==
    /\ exc' = [exc EXCEPT ![s] = [stage |-> stage, status |-> status, body |-> body]]
    /\ pc' = [pc EXCEPT ![s] = RaiseTo(stage)]
    /\ log' = IF RaiseTo(stage) = "finally" THEN Logged(s, "error") ELSE log

\* ---- main ---------------------------------------------------------------------
\* an exception that leaves on_hotkey unwinds the listener that called it
ListenerAlive == \A s \in Sessions : pc[s] # "escaped"

\* main: add_to_startup(); keyboard.add_hotkey("F8", on_hotkey); keyboard.wait("F4")
main_register ==
    /\ mainpc = "start"
    /\ mainpc' = "waiting"
    /\ UNCHANGED <<started, pc, button1, now, fs, clipboard, session_vars>>

\* F4 releases keyboard.wait; main returns and the process ends
HotkeyF4 ==
    /\ mainpc = "waiting"
    /\ ListenerAlive
    /\ mainpc' = "exited"
    /\ UNCHANGED <<started, pc, button1, now, fs, clipboard, session_vars>>

\* F8: the listener calls on_hotkey; path = None
HotkeyF8 ==
    /\ mainpc = "waiting"
    /\ ListenerAlive
    /\ started < MaxSessions
    /\ started' = started + 1
    /\ pc' = [pc EXCEPT ![started + 1] = "tk"]
    /\ clip_before' = [clip_before EXCEPT ![started + 1] = clipboard]
    /\ UNCHANGED <<mainpc, tool, button1, bbox, path, url, resp, exc, now, fs,
                   clipboard, posted, copies, log>>

\* the wall clock reaches the next second
Tick ==
    /\ mainpc # "exited"
    /\ now < MaxClock
    /\ now' = now + 1
    /\ UNCHANGED <<mainpc, started, pc, button1, fs, clipboard, session_vars>>

\* the pointer's button is pressed or released while no overlay is shown
PointerElsewhere ==
    /\ mainpc # "exited"
    /\ \A s \in Sessions : tool[s].root # "open"
    /\ button1' = ~button1
    /\ UNCHANGED <<mainpc, started, pc, now, fs, clipboard, session_vars>>

\* ---- SnippingTool ------------------------------------------------------------
Alive(s) == mainpc # "exited" /\ s \in Sessions

\* SnippingTool.__init__: the overlay is shown and mainloop runs
SnippingTool_init(s) ==
    /\ Alive(s) /\ pc[s] = "tk"
    /\ tool' = [tool EXCEPT ![s] = [NoTool EXCEPT !.root = "open"]]
    /\ pc' = [pc EXCEPT ![s] = "mainloop"]
    /\ UNCHANGED <<mainpc, started, button1, bbox, path, url, resp, exc, now, fs,
                   clipboard, posted, copies, clip_before, log>>

\* SnippingTool.__init__: tk.Tk() raises (no display)
SnippingTool_raises(s) ==
    /\ Alive(s) /\ pc[s] = "tk"
    /\ Raise(s, "selection", 0, << >>)
    /\ UNCHANGED <<mainpc, started, tool, button1, bbox, path, url, resp, now, fs,
                   clipboard, posted, copies, clip_before>>

\* <ButtonPress-1>
on_button_press(s, x, y) ==
    /\ Alive(s) /\ pc[s] = "mainloop" /\ tool[s].root = "open"
    /\ ~button1
    /\ button1' = TRUE
    /\ tool' = [tool EXCEPT ![s] = [@ EXCEPT !.start_x = x, !.start_y = y,
                                             !.rect = <<x, y, x, y>>]]
    /\ UNCHANGED <<mainpc, started, pc, bbox, path, url, resp, exc, now, fs,
                   clipboard, posted, copies, clip_before, log>>

\* <B1-Motion>: canvas.coords(self.rect, ...) moves the outline, if there is one
on_move_press(s, x, y) ==
    /\ Alive(s) /\ pc[s] = "mainloop" /\ tool[s].root = "open"
    /\ button1
    /\ tool' = [tool EXCEPT ![s] = [@ EXCEPT !.rect =
                    IF tool[s].rect = NoRect THEN NoRect
                    ELSE <<tool[s].start_x, tool[s].start_y, x, y>>]]
    /\ UNCHANGED <<mainpc, started, pc, button1, bbox, path, url, resp, exc, now,
                   fs, clipboard, posted, copies, clip_before, log>>

\* <ButtonRelease-1>: root.destroy() ends mainloop
on_button_release(s, x, y) ==
    /\ Alive(s) /\ pc[s] = "mainloop" /\ tool[s].root = "open"
    /\ button1
    /\ button1' = FALSE
    /\ tool' = [tool EXCEPT ![s] = [@ EXCEPT !.end_x = x, !.end_y = y,
                                             !.rect = NoRect, !.root = "destroyed"]]
    /\ pc' = [pc EXCEPT ![s] = "rect"]
    /\ UNCHANGED <<mainpc, started, bbox, path, url, resp, exc, now, fs,
                   clipboard, posted, copies, clip_before, log>>

\* ---- take_snip ---------------------------------------------------------------
\* x1 = min(...); y1 = min(...); x2 = max(...); y2 = max(...)
take_snip_rect(s) ==
    /\ Alive(s) /\ pc[s] = "rect"
    /\ bbox' = [bbox EXCEPT ![s] = NormaliseRect(tool[s].start_x, tool[s].start_y,
                                                 tool[s].end_x, tool[s].end_y)]
    /\ pc' = [pc EXCEPT ![s] = "capture"]
    /\ UNCHANGED <<mainpc, started, tool, button1, path, url, resp, exc, now, fs,
                   clipboard, posted, copies, clip_before, log>>

\* ImageGrab.grab or img.save raises; img.save may have created the file already
take_snip_raises(s, left) ==
    /\ Alive(s) /\ pc[s] = "capture"
    /\ fs' = IF left THEN [fs EXCEPT ![now] = s] ELSE fs
    /\ Raise(s, "capture", 0, << >>)
    /\ UNCHANGED <<mainpc, started, tool, button1, bbox, path, url, resp, now,
                   clipboard, posted, copies, clip_before>>

\* img = ImageGrab.grab(bbox); img.save(path); return path
take_snip_saves(s) ==
    /\ Alive(s) /\ pc[s] = "capture"
    /\ ~EmptyImage(bbox[s])
    /\ fs' = [fs EXCEPT ![now] = s]
    /\ path' = [path EXCEPT ![s] = now]
    /\ log' = Logged(s, "saved")
    /\ pc' = [pc EXCEPT ![s] = "upload"]
    /\ UNCHANGED <<mainpc, started, tool, button1, bbox, url, resp, exc, now,
                   clipboard, posted, copies, clip_before>>

\* ---- upload_to_catbox ----------------------------------------------------------
\* open(filepath, "rb") raises: the file is not there
upload_open_raises(s) ==
    /\ Alive(s) /\ pc[s] = "upload"
    /\ fs[path[s]] = NoFile
    /\ Raise(s, "upload", 0, << >>)
    /\ UNCHANGED <<mainpc, started, tool, button1, bbox, path, url, resp, now, fs,
                   clipboard, posted, copies, clip_before>>

\* requests.post raises (timeout, connection error)
upload_post_raises(s) ==
    /\ Alive(s) /\ pc[s] = "upload"
    /\ fs[path[s]] # NoFile
    /\ posted' = [posted EXCEPT ![s] = Append(@, fs[path[s]])]
    /\ Raise(s, "upload", 0, << >>)
    /\ UNCHANGED <<mainpc, started, tool, button1, bbox, path, url, resp, now, fs,
                   clipboard, copies, clip_before>>

\* requests.post returns r; the RuntimeError carries resp.status_code and resp.text
upload_response(s, r) ==
    /\ Alive(s) /\ pc[s] = "upload"
    /\ fs[path[s]] # NoFile
    /\ posted' = [posted EXCEPT ![s] = Append(@, fs[path[s]])]
    /\ resp' = [resp EXCEPT ![s] = r]
    /\ IF UploadOk(r)
       THEN /\ url' = [url EXCEPT ![s] = ReturnedUrl(r.body)]
            /\ log' = Logged(s, "uploaded")
            /\ pc' = [pc EXCEPT ![s] = "copy"]
            /\ exc' = exc
       ELSE /\ Raise(s, "upload", r.status, r.body)
            /\ url' = url
    /\ UNCHANGED <<mainpc, started, tool, button1, bbox, path, now, fs, clipboard,
                   copies, clip_before>>

\* ---- on_hotkey -----------------------------------------------------------------
\* pyperclip.copy(url); logger.info("Link copied to clipboard.")
copy(s) ==
    /\ Alive(s) /\ pc[s] = "copy"
    /\ copies' = [copies EXCEPT ![s] = @ + 1]
    /\ clipboard' = url[s]
    /\ log' = Logged(s, "copied")
    /\ pc' = [pc EXCEPT ![s] = "finally"]
    /\ UNCHANGED <<mainpc, started, tool, button1, bbox, path, url, resp, exc, now,
                   fs, posted, clip_before>>

\* pyperclip.copy raises, with the clipboard untouched or already emptied
copy_raises(s, emptied) ==
    /\ Alive(s) /\ pc[s] = "copy"
    /\ copies' = [copies EXCEPT ![s] = @ + 1]
    /\ clipboard' = IF emptied THEN EmptyClip ELSE clipboard
    /\ Raise(s, "clipboard", 0, << >>)
    /\ UNCHANGED <<mainpc, started, tool, button1, bbox, path, url, resp, now, fs,
                   posted, clip_before>>

InFinally(s) == pc[s] \in {"finally", "finally_raising"}
InRemove(s) == pc[s] \in {"remove", "remove_raising"}

\* on_hotkey ends: it returns, or the exception no handler took leaves it
EndOf(s) == IF pc[s] \in {"finally_raising", "remove_raising"} THEN "escaped" ELSE "done"

\* finally: if path and os.path.exists(path)
finally_check(s) ==
    /\ Alive(s) /\ InFinally(s)
    /\ pc' = [pc EXCEPT ![s] =
                IF path[s] # NoPath /\ fs[path[s]] # NoFile
                THEN (IF pc[s] = "finally" THEN "remove" ELSE "remove_raising")
                ELSE EndOf(s)]
    /\ UNCHANGED <<mainpc, started, tool, button1, bbox, path, url, resp, exc, now,
                   fs, clipboard, posted, copies, clip_before, log>>

\* os.remove(path); logger.info("Temporary file deleted")
remove(s) ==
    /\ Alive(s) /\ InRemove(s)
    /\ fs[path[s]] # NoFile
    /\ fs' = [fs EXCEPT ![path[s]] = NoFile]
    /\ log' = Logged(s, "deleted")
    /\ pc' = [pc EXCEPT ![s] = EndOf(s)]
    /\ UNCHANGED <<mainpc, started, tool, button1, bbox, path, url, resp, exc, now,
                   clipboard, posted, copies, clip_before>>

\* os.remove raises; logger.exception("Could not delete temp file")
remove_raises(s) ==
    /\ Alive(s) /\ InRemove(s)
    /\ log' = Logged(s, "delete_failed")
    /\ pc' = [pc EXCEPT ![s] = EndOf(s)]
    /\ UNCHANGED <<mainpc, started, tool, button1, bbox, path, url, resp, exc, now,
                   fs, clipboard, posted, copies, clip_before>>

\* ---- specifications --------------------------------------------------------------
SessionStep(s) ==
    \/ SnippingTool_init(s)
    \/ SnippingTool_raises(s)
    \/ \E x \in Coords, y \in Coords : on_button_press(s, x, y)
    \/ \E x \in Coords, y \in Coords : on_move_press(s, x, y)
    \/ \E x \in Coords, y \in Coords : on_button_release(s, x, y)
    \/ take_snip_rect(s)
    \/ \E left \in BOOLEAN : take_snip_raises(s, left)
    \/ take_snip_saves(s)
    \/ upload_open_raises(s)
    \/ upload_post_raises(s)
    \/ \E r \in SessionResponses : upload_response(s, r)
    \/ copy(s)
    \/ \E emptied \in BOOLEAN : copy_raises(s, emptied)
    \/ finally_check(s)
    \/ remove(s)
    \/ remove_raises(s)

Next ==
    \/ main_register
    \/ HotkeyF4
    \/ HotkeyF8
    \/ Tick
    \/ PointerElsewhere
    \/ \E s \in Sessions : SessionStep(s)

Spec == Init /\ [][Next]_vars

\* upload_to_catbox on its own: one call, given a saved capture, every response
InitUpload ==
    /\ mainpc = "waiting"
    /\ started = 1
    /\ pc = [s \in Sessions |-> IF s = 1 THEN "upload" ELSE "idle"]
    /\ tool = [s \in Sessions |->
                 IF s = 1 THEN [NoTool EXCEPT !.end_x = MaxCoord, !.end_y = MaxCoord,
                                              !.root = "destroyed"]
                 ELSE NoTool]
    /\ button1 = FALSE
    /\ bbox = [s \in Sessions |-> IF s = 1 THEN <<0, 0, MaxCoord, MaxCoord>> ELSE NoBox]
    /\ path = [s \in Sessions |-> IF s = 1 THEN 0 ELSE NoPath]
    /\ url = [s \in Sessions |-> NoUrl]
    /\ resp = [s \in Sessions |-> NoResp]
    /\ exc = [s \in Sessions |-> NoExc]
    /\ now = 0
    /\ fs = [p \in Paths |-> IF p = 0 THEN 1 ELSE NoFile]
    /\ clipboard = PriorClip
    /\ posted = [s \in Sessions |-> << >>]
    /\ copies = [s \in Sessions |-> 0]
    /\ clip_before = [s \in Sessions |-> IF s = 1 THEN PriorClip ELSE EmptyClip]
    /\ log = [s \in Sessions |-> IF s = 1 THEN <<"saved">> ELSE << >>]

NextUpload == pc[1] = "upload" /\ \E r \in Responses : upload_response(1, r)

SpecUpload == InitUpload /\ [][NextUpload]_vars

\* ---- properties -------------------------------------------------------------------
Ended(s) == pc[s] \in {"done", "escaped"}
InFlight(s) == pc[s] \notin {"idle", "done", "escaped"}
LogHas(s, msg) == \E i \in 1..Len(log[s]) : log[s][i] = msg
ZeroArea(s) == tool[s].start_x = tool[s].end_x \/ tool[s].start_y = tool[s].end_y
\* the invocation went through the press and release handlers and past take_snip's grab
Selected(s) == tool[s].root = "destroyed" /\ pc[s] \notin {"rect", "capture"}

\* C1: once a session has ended, no file holding that session's capture is left
\* in the directory, however the session went.
C1_TempFileGoneAfterSession ==
    \A s \in Sessions : Ended(s) => \A p \in Paths : fs[p] # s

\* C2: at most one session is in flight at any time.
C2_OneSessionInFlight ==
    Cardinality({s \in Sessions : InFlight(s)}) <= 1

\* C3 as stated: when a session that failed at any stage (selection, capture,
\* upload, clipboard write or temp-file deletion) ends, the clipboard is what it
\* was when that session began.
C3_ClipboardUnchangedAfterFailure ==
    [][\A s \in Sessions :
          (pc[s] # "done" /\ pc'[s] = "done"
             /\ (exc'[s] # NoExc \/ log'[s][Len(log'[s])] = "delete_failed"))
          => clipboard' = clip_before'[s]]_vars

\* C3 as amended: a session that fails at selection, capture or upload never
\* writes the clipboard, and the clipboard changes only in a step in which
\* some session calls pyperclip.copy.
C3_EarlyFailureWritesNoClipboard ==
    [][/\ \A s \in Sessions :
             exc'[s].stage \in {"selection", "capture", "upload"} => copies'[s] = 0
       /\ clipboard' # clipboard
             => \E s \in Sessions : copies'[s] = copies[s] + 1 /\ exc[s] = NoExc]_vars

\* C3 witness: a session failed at the upload and ended with the clipboard as
\* it found it.
C3_Witness ==
    \E s \in Sessions :
        /\ pc[s] = "done" /\ exc[s].stage = "upload" /\ Len(posted[s]) = 1
        /\ clipboard = clip_before[s]

\* C4: when a session in which every step up to the clipboard write succeeded
\* ends, the clipboard holds exactly the URL upload_to_catbox returned to it.
C4_ClipboardIsUrlAfterSuccess ==
    [][\A s \in Sessions :
          (pc[s] # "done" /\ pc'[s] = "done" /\ exc'[s] = NoExc)
          => clipboard' = url'[s]]_vars

\* C5: no error of any step leaves on_hotkey: each one is logged, each
\* invocation that ends has returned, the deletion error is logged too, and the
\* listener can still start a session afterwards.
C5_NoErrorLeavesOnHotkey ==
    \A s \in Sessions :
        /\ pc[s] \notin {"escaped", "finally_raising", "remove_raising"}
        /\ (exc[s] # NoExc /\ pc[s] \in {"finally", "remove", "done"})
              => LogHas(s, "error")
        /\ (pc[s] = "done" /\ mainpc = "waiting" /\ started < MaxSessions)
              => ENABLED HotkeyF8

\* C5 witness: a session failed at the upload and has returned, and the next
\* trigger has started another one.
C5_Witness ==
    /\ pc[1] = "done" /\ exc[1].stage = "upload" /\ LogHas(1, "error")
    /\ pc[2] = "tk"

\* C6: the rectangle handed to the screen grab is the press and release points
\* sorted on each axis, so x1 <= x2 and y1 <= y2 whatever the drag direction.
C6_RectIsNormalised ==
    \A s \in Sessions :
        bbox[s] # NoBox =>
            /\ bbox[s][1] <= bbox[s][3]
            /\ bbox[s][2] <= bbox[s][4]
            /\ {bbox[s][1], bbox[s][3]} = {tool[s].start_x, tool[s].end_x}
            /\ {bbox[s][2], bbox[s][4]} = {tool[s].start_y, tool[s].end_y}

\* C6 witness: a drag from the far corner back to the origin.
C6_Witness ==
    \E s \in Sessions :
        /\ pc[s] = "capture"
        /\ tool[s].start_x = MaxCoord /\ tool[s].start_y = MaxCoord
        /\ tool[s].end_x = 0 /\ tool[s].end_y = 0
        /\ bbox[s] = <<0, 0, MaxCoord, MaxCoord>>

C8_UploadSucceedsIffOkAndHttp ==
    \A s \in Sessions :
        resp[s] # NoResp =>
            LET r == resp[s]
                good == /\ r.status < 400
                        /\ Len(r.body) >= 4
                        /\ r.body[1] = "h" /\ r.body[2] = "t"
                        /\ r.body[3] = "t" /\ r.body[4] = "p"
            IN  /\ good <=> url[s] # NoUrl
                /\ good => exc[s].stage # "upload"
                /\ ~good => /\ exc[s] = [stage |-> "upload", status |-> r.status,
                                         body |-> r.body]
                            /\ pc[s] # "copy"

\* C8 witness: status 400 with a body that starts like a URL was refused, and
\* the error carries both.
C8_Witness ==
    \E s \in Sessions :
        /\ resp[s].status = 400 /\ StartsWith(resp[s].body, Http)
        /\ exc[s].status = 400 /\ exc[s].body = resp[s].body
        /\ url[s] = NoUrl

\* C9: a returned URL is the response body without its trailing whitespace,
\* and neither begins nor ends with whitespace.
C9_ReturnedUrlIsStrippedBody ==
    \A s \in Sessions :
        url[s] # NoUrl =>
            LET u == url[s]
                b == resp[s].body
            IN  /\ u[1] \notin Whitespace
                /\ u[Len(u)] \notin Whitespace
                /\ Len(u) <= Len(b)
                /\ \A i \in 1..Len(u) : u[i] = b[i]
                /\ \A i \in (Len(u) + 1)..Len(b) : b[i] \in Whitespace

\* C9 witness: a body with a trailing newline was returned without it.
C9_Witness ==
    \E s \in Sessions :
        /\ url[s] # NoUrl
        /\ resp[s].body = url[s] \o <<"\n">>

\* C10: a session posts at most once, and a session that failed before the
\* upload step has posted nothing.
C10_AtMostOnePost ==
    \A s \in Sessions :
        /\ Len(posted[s]) <= 1
        /\ exc[s].stage \in {"selection", "capture"} => posted[s] = << >>
        /\ pc[s] \in {"idle", "tk", "mainloop", "rect", "capture", "upload"}
              => posted[s] = << >>

\* C10 witness: a session whose only post failed has ended.
C10_Witness ==
    \E s \in Sessions :
        /\ pc[s] = "done" /\ exc[s].stage = "upload" /\ Len(posted[s]) = 1

\* C11: while main waits, whatever sessions have run, failed or are running,
\* pressing F4 ends the program; and the program ends in no other way: main
\* leaves keyboard.wait only by the F4 step, which changes no session.
C11_F4AlwaysExits ==
    /\ [](mainpc = "waiting" => ENABLED (HotkeyF4 /\ mainpc' = "exited"))
    /\ [][mainpc' = "exited" => (mainpc = "waiting" /\ pc' = pc /\ exc' = exc)]_vars

\* C11 witness: the program has ended by F4 after one session failed and
\* returned and while another was still running.
C11_Witness ==
    /\ mainpc = "exited"
    /\ \E s \in Sessions : pc[s] = "done" /\ exc[s] # NoExc
    /\ \E s \in Sessions : InFlight(s)

\* the place of a log record in the order of on_hotkey's steps
Rank(msg) ==
    CASE msg = "saved" -> 1
      [] msg = "uploaded" -> 2
      [] msg = "copied" -> 3
      [] msg = "error" -> 4
      [] OTHER -> 5

\* C12: within a session the steps run in the order select, capture, upload,
\* clipboard write, delete: the records of a session appear in that order, a
\* capture follows a finished selection, a post follows a saved capture, a
\* clipboard write follows a successful upload, nothing follows a failed step
\* but the deletion, and the deletion is the last step of the session.
C12_StepsInOrder ==
    \A s \in Sessions :
        /\ \A i \in 1..Len(log[s]) : \A j \in (i + 1)..Len(log[s]) :
               Rank(log[s][i]) < Rank(log[s][j])
        /\ (bbox[s] # NoBox \/ LogHas(s, "saved")) => tool[s].root = "destroyed"
        /\ LogHas(s, "saved") <=> path[s] # NoPath
        /\ posted[s] # << >> => (LogHas(s, "saved") /\ bbox[s] # NoBox)
        /\ LogHas(s, "uploaded") <=> url[s] # NoUrl
        /\ url[s] # NoUrl => (Len(posted[s]) = 1 /\ UploadOk(resp[s]))
        /\ copies[s] > 0 => (url[s] # NoUrl /\ exc[s].stage \in {"", "clipboard"})
        /\ LogHas(s, "copied") => copies[s] = 1
        /\ ~(LogHas(s, "copied") /\ LogHas(s, "error"))
        /\ LogHas(s, "error") <=> exc[s] # NoExc
        /\ (LogHas(s, "deleted") \/ LogHas(s, "delete_failed")) =>
               (pc[s] = "done" /\ (LogHas(s, "copied") \/ LogHas(s, "error")))
        /\ pc[s] = "done" => (LogHas(s, "copied") \/ LogHas(s, "error"))

\* C12 witness: a session went through every step and removed its file.
C12_Witness ==
    \E s \in Sessions :
        /\ pc[s] = "done"
        /\ log[s] = <<"saved", "uploaded", "copied", "deleted">>

\* <Escape> while the overlay is shown: SnippingTool.__init__ binds no handler
\* to it, so the event is dropped
KeyEscape(s) ==
    /\ Alive(s) /\ pc[s] = "mainloop" /\ tool[s].root = "open"
    /\ UNCHANGED vars

\* C13: the overlay closes only on a pointer-up that follows a pointer-down
\* the overlay has seen (its outline exists); a pointer-up or a pointer-move
\* that arrives first leaves the overlay open and produces nothing.
C13_CloseOnlyAfterPress ==
    [][\A s \in Sessions :
          /\ (tool[s].root = "open" /\ tool'[s].root # "open") => tool[s].rect # NoRect
          /\ (tool[s].root = "open" /\ tool[s].rect = NoRect /\ tool'[s].rect = NoRect)
                => (tool'[s] = tool[s] /\ pc'[s] = pc[s])]_vars

\* C14: while the overlay is shown, the escape key closes it with no selection,
\* and the session then captures, posts and copies nothing.
C14_EscapeAborts ==
    \A s \in Sessions :
        (pc[s] = "mainloop" /\ tool[s].root = "open") =>
            ENABLED (/\ KeyEscape(s)
                     /\ tool'[s].root # "open"
                     /\ pc'[s] \notin {"mainloop", "rect", "capture", "upload", "copy"})

\* C15: a session posts only the capture it saved itself, and the capture file
\* take_snip returned to a session is overwritten or removed only by a step of
\* that session.
C15_OwnFileOnly ==
    [][/\ \A s \in Sessions :
             posted'[s] # posted[s] => posted'[s][Len(posted'[s])] = s
       /\ \A p \in Paths :
             (fs[p] # NoFile /\ path[fs[p]] = p /\ fs'[p] # fs[p])
                => pc'[fs[p]] # pc[fs[p]]]_vars

====
